---------------------------- MODULE Spec2Model ----------------------------
(***************************************************************************)
(* Model of the GOST ingestion / search core of tgbot:                     *)
(*   data_sources.py : the seven origin adapters, the registry, the        *)
(*                     aggregator (fetch_from_all_sources) and the store   *)
(*                     writer (save_gosts_to_db)                           *)
(*   parse_tools.py  : the store search, the online search and the         *)
(*                     store-first search (get_search_list)                *)
(*   models.py       : the gosts table and the session                     *)
(*   csv_to_sql.py   : the command-line entry points of the updates        *)
(*                                                                         *)
(* Text is a sequence of one-character strings.  The parser accepts ASCII  *)
(* only, so the Cyrillic letters of the marker are written with the Latin  *)
(* capitals G O S T (lower case g o s t); the Latin letters of the model   *)
(* are X Y (lower case x y).                                               *)
(***************************************************************************)
EXTENDS Naturals, Sequences, FiniteSets

VARIABLES
    store,   \* rows of table gosts, in insertion (id) order
    env,     \* what each origin currently serves: [page, page2, fault]
    op,      \* the operation that made the last step
    arg,     \* its argument (a query, or an origin index)
    ret,     \* its outcome: [kind |-> "ok" / "raise", val |-> ...]
    calls,   \* the origins it invoked, in invocation order
    dbq,     \* the number of store queries it issued
    repeat,  \* the last step repeated the step before it: the same
             \* operation and argument, no origin changed in between
    medium,  \* "up" when the database file can be reached, else "down"
    sess,    \* the session of each running save_gosts_to_db: where it
             \* is, what is left of its batch, the rows it has added
    writer   \* the invocation whose transaction holds the write lock, or 0

vars == <<store, env, op, arg, ret, calls, dbq, repeat, medium, sess, writer>>

---------------------------------------------------------------------------
(* Text                                                                    *)

\* the ASCII capitals of the alphabet
LatUpper == {"X", "Y"}

\* str.lower() / str.upper() on one character (Unicode aware)
LowerChar(c) ==
    CASE c = "G" -> "g" [] c = "O" -> "o" [] c = "S" -> "s" [] c = "T" -> "t"
      [] c = "X" -> "x" [] c = "Y" -> "y" [] OTHER -> c

UpperChar(c) ==
    CASE c = "g" -> "G" [] c = "o" -> "O" [] c = "s" -> "S" [] c = "t" -> "T"
      [] c = "x" -> "X" [] c = "y" -> "Y" [] OTHER -> c

Lower(s) == [i \in 1..Len(s) |-> LowerChar(s[i])]
Upper(s) == [i \in 1..Len(s) |-> UpperChar(s[i])]

IsSpace(c) == c = " "

RECURSIVE LStrip(_)
LStrip(s) == IF s # <<>> /\ IsSpace(s[1]) THEN LStrip(Tail(s)) ELSE s

RECURSIVE RStrip(_)
RStrip(s) ==
    IF s # <<>> /\ IsSpace(s[Len(s)]) THEN RStrip(SubSeq(s, 1, Len(s) - 1)) ELSE s

\* str.strip() and get_text(strip=True)
Strip(s) == RStrip(LStrip(s))

\* Python's  needle in hay
Contains(hay, needle) ==
    \E o \in 0..Len(hay) :
        /\ o + Len(needle) <= Len(hay)
        /\ \A k \in 1..Len(needle) : hay[o + k] = needle[k]

\* SQLite's LIKE folds case for ASCII letters only
LikeFold(c) == IF c \in LatUpper THEN LowerChar(c) ELSE c

\* SQLite's  value LIKE pattern  ('%' any run, '_' any one character)
RECURSIVE LikeMatch(_, _)
LikeMatch(p, s) ==
    IF p = <<>> THEN s = <<>>
    ELSE IF p[1] = "%"
         THEN LikeMatch(Tail(p), s) \/ (s # <<>> /\ LikeMatch(p, Tail(s)))
    ELSE IF p[1] = "_"
         THEN s # <<>> /\ LikeMatch(Tail(p), Tail(s))
    ELSE s # <<>> /\ LikeFold(p[1]) = LikeFold(s[1]) /\ LikeMatch(Tail(p), Tail(s))

\* the marker the adapters filter on
GOST == <<"G", "O", "S", "T">>


---------------------------------------------------------------------------
(* Origins: what a page holds and how a fetch can fail                     *)

\* A raw item of an origin's page (a CSV row, a div, a table row, a link):
\* title says whether the title part is there at all (the row has two
\* fields, the block has its <a>), name and description are the texts as
\* served, before any stripping.
RawItem(n, d, t) == [name |-> n, description |-> d, title |-> t]

Gost(n, d) == [name |-> n, description |-> d]

NoFault == [stage |-> "none", at |-> 0, exc |-> "none"]
Fault(st, k, e) == [stage |-> st, at |-> k, exc |-> e]

\* requests.ConnectionError, requests.Timeout and requests.HTTPError
\* (raise_for_status) derive from requests.RequestException
RequestExceptions == {"ConnectionError", "Timeout", "HTTPError"}
IsRequestException(e) == e \in RequestExceptions

Ok(v) == [kind |-> "ok", val |-> v]
Raise(e) == [kind |-> "raise", val |-> e]

\* get_html with the try/except removed
get_html_NoCatch(f, stage) ==
    IF f.stage = stage THEN [raised |-> TRUE, ok |-> FALSE]
    ELSE [raised |-> FALSE, ok |-> TRUE]

\* GostDataSource.get_html: None (ok = FALSE) on a RequestException, any
\* other exception leaves the helper
get_html(f, stage) ==
    IF f.stage = stage
    THEN IF IsRequestException(f.exc)
         THEN [raised |-> FALSE, ok |-> FALSE]
         ELSE [raised |-> TRUE, ok |-> FALSE]
    ELSE [raised |-> FALSE, ok |-> TRUE]

\* the per-origin tests an item passes before it is appended; raw is the
\* title text as served, name the stripped text
GostRuKeeps(raw, name) == TRUE

DocsCntdRuKeeps(raw, name) == name # <<>> /\ Contains(Upper(name), GOST)

MeganormRuKeeps(raw, name) == Contains(Upper(raw), GOST)

ProtectGostRuKeeps(raw, name) == TRUE

FilesStroyinfRuKeeps(raw, name) == Contains(Upper(name), GOST)

InternetLawRuKeeps(raw, name) == Contains(Upper(name), GOST)

LibGostRuKeeps(raw, name) == Contains(Upper(name), GOST) \/ name # <<>>

Keeps(s, raw, name) ==
    CASE s = 1 -> GostRuKeeps(raw, name)
      [] s = 2 -> DocsCntdRuKeeps(raw, name)
      [] s = 3 -> MeganormRuKeeps(raw, name)
      [] s = 4 -> ProtectGostRuKeeps(raw, name)
      [] s = 5 -> FilesStroyinfRuKeeps(raw, name)
      [] s = 6 -> InternetLawRuKeeps(raw, name)
      [] s = 7 -> LibGostRuKeeps(raw, name)

\* gosts.append({'name': name, 'description': description}) when the item
\* has its title part and passes the origin's test
Extracted(s, it, name, description) ==
    IF it.title /\ Keeps(s, it.name, name) THEN <<Gost(name, description)>> ELSE <<>>

\* the  for item in items: ... gosts.append(...)  loops
RECURSIVE Flatten(_)
Flatten(ss) == IF ss = <<>> THEN <<>> ELSE ss[1] \o Flatten(Tail(ss))

\* the loop body of the adapter at registry position s: <<>> when the
\* item is skipped
ItemRule(s, it) == Extracted(s, it, Strip(it.name), Strip(it.description))

Scrape(s, items) == Flatten([i \in 1..Len(items) |-> ItemRule(s, items[i])])

\* mutant: the except clause empties gosts
ParseAndScrape_Discarding(s, page, f, parseStage, loopStage) ==
    IF f.stage = parseStage \/ (f.stage = loopStage /\ f.at <= Len(page))
    THEN <<>>
    ELSE Scrape(s, page)

\* the body of a  try: parse; loop  except Exception: (log)  block: what
\* was appended before the exception stays in gosts
ParseAndScrape(s, page, f, parseStage, loopStage) ==
    IF f.stage = parseStage THEN <<>>
    ELSE IF f.stage = loopStage /\ f.at <= Len(page)
         THEN Scrape(s, SubSeq(page, 1, f.at - 1))
         ELSE Scrape(s, page)

\* the shape shared by the five adapters that call get_html before try:
AfterHtml(s, b, h) ==
    IF h.raised THEN Raise(b.fault.exc)
    ELSE IF ~h.ok THEN Ok(<<>>)
    ELSE Ok(ParseAndScrape(s, b.page, b.fault, "parse1", "loop1"))

HtmlAdapter(s, b) == AfterHtml(s, b, get_html(b.fault, "req1"))

\* GostRuDataSource.fetch_gosts: everything is inside try, both requests
\* are made with requests.get directly
GostRu_fetch_gosts(b) ==
    IF b.fault.stage \in {"req1", "parse1", "req2", "parse2"} THEN Ok(<<>>)
    ELSE Ok(Scrape(1, b.page))

DocsCntdRu_fetch_gosts(b) == HtmlAdapter(2, b)
MeganormRu_fetch_gosts(b) == HtmlAdapter(3, b)
FilesStroyinfRu_fetch_gosts(b) == HtmlAdapter(5, b)
InternetLawRu_fetch_gosts(b) == HtmlAdapter(6, b)
LibGostRu_fetch_gosts(b) == HtmlAdapter(7, b)

\* ProtectGostRuDataSource.fetch_gosts: two prefix queries inside one try
\* one pass of  for prefix in prefixes:  None from get_html skips the pass
ProtectPass(page, f, h, parseStage, loopStage) ==
    IF ~h.ok THEN <<>> ELSE ParseAndScrape(4, page, f, parseStage, loopStage)

\* an exception in the first pass ends the loop
ProtectStops(b, h1) ==
    \/ h1.raised
    \/ b.fault.stage = "parse1"
    \/ (h1.ok /\ b.fault.stage = "loop1" /\ b.fault.at <= Len(b.page))

ProtectResult(stop1, first, second) ==
    IF stop1 THEN Ok(first) ELSE Ok(first \o second)

ProtectGostRu_fetch_gosts(b) ==
    ProtectResult(ProtectStops(b, get_html(b.fault, "req1")),
                  ProtectPass(b.page, b.fault, get_html(b.fault, "req1"),
                              "parse1", "loop1"),
                  ProtectPass(b.page2, b.fault, get_html(b.fault, "req2"),
                              "parse2", "loop2"))

\* DATA_SOURCES, by position
NumSources == 7
Sources == 1..NumSources

SourceName ==
    <<"gost.ru", "docs.cntd.ru", "meganorm.ru", "protect.gost.ru",
      "files.stroyinf.ru", "internet-law.ru", "libgost.ru">>

DATA_SOURCES == [s \in Sources |-> SourceName[s]]

get_all_data_sources == DATA_SOURCES

\* mutant: the names in alphabetical order
list_available_sources_Sorted ==
    <<"docs.cntd.ru", "files.stroyinf.ru", "gost.ru", "internet-law.ru",
      "libgost.ru", "meganorm.ru", "protect.gost.ru">>

\* [source.name for source in get_all_data_sources()]
list_available_sources ==
    [i \in 1..Len(get_all_data_sources) |-> get_all_data_sources[i]]

\* source.fetch_gosts() by dynamic dispatch
fetch_gosts(s, b) ==
    CASE s = 1 -> GostRu_fetch_gosts(b)
      [] s = 2 -> DocsCntdRu_fetch_gosts(b)
      [] s = 3 -> MeganormRu_fetch_gosts(b)
      [] s = 4 -> ProtectGostRu_fetch_gosts(b)
      [] s = 5 -> FilesStroyinfRu_fetch_gosts(b)
      [] s = 6 -> InternetLawRu_fetch_gosts(b)
      [] s = 7 -> LibGostRu_fetch_gosts(b)

fetch_from_source(s, b) == fetch_gosts(s, b)

---------------------------------------------------------------------------
(* Aggregator                                                              *)

\* the  for source in DATA_SOURCES: try ... except Exception  loop; acc is
\* [gosts, calls]
\* one pass of the loop: extend on a return, only log on an exception
Collected(acc, s, out) ==
    [gosts |-> IF out.kind = "ok" THEN acc.gosts \o out.val ELSE acc.gosts,
     calls |-> Append(acc.calls, s)]

RECURSIVE CollectFrom(_, _, _)
CollectFrom(e, s, acc) ==
    IF s > NumSources THEN acc
    ELSE CollectFrom(e, s + 1, Collected(acc, s, fetch_from_source(s, e[s])))

\* the  seen_names / unique_gosts  loop
RECURSIVE UniqueByName(_, _, _)
UniqueByName(gosts, seen_names, unique_gosts) ==
    IF gosts = <<>> THEN unique_gosts
    ELSE IF gosts[1].name \notin seen_names
         THEN UniqueByName(Tail(gosts), seen_names \cup {gosts[1].name},
                           Append(unique_gosts, gosts[1]))
         ELSE UniqueByName(Tail(gosts), seen_names, unique_gosts)

\* mutant: the try/except around fetch_from_source removed
FirstRaising(e) == CHOOSE s \in Sources :
    /\ fetch_from_source(s, e[s]).kind = "raise"
    /\ \A t \in 1..(s - 1) : fetch_from_source(t, e[t]).kind = "ok"

Deduped(all) == [ret |-> Ok(UniqueByName(all.gosts, {}, <<>>)), calls |-> all.calls]

fetch_from_all_sources_NoCatch(e) ==
    IF \E s \in Sources : fetch_from_source(s, e[s]).kind = "raise"
    THEN [ret |-> fetch_from_source(FirstRaising(e), e[FirstRaising(e)]),
          calls |-> [s \in 1..FirstRaising(e) |-> s]]
    ELSE Deduped(CollectFrom(e, 1, [gosts |-> <<>>, calls |-> <<>>]))

\* mutant: the last occurrence of a name wins
RECURSIVE UniqueKeepLast(_)
UniqueKeepLast(gosts) ==
    IF gosts = <<>> THEN <<>>
    ELSE IF \E i \in 2..Len(gosts) : gosts[i].name = gosts[1].name
         THEN UniqueKeepLast(Tail(gosts))
         ELSE <<gosts[1]>> \o UniqueKeepLast(Tail(gosts))

DedupedKeepLast(all) == [ret |-> Ok(UniqueKeepLast(all.gosts)), calls |-> all.calls]

fetch_from_all_sources_KeepLast(e) ==
    DedupedKeepLast(CollectFrom(e, 1, [gosts |-> <<>>, calls |-> <<>>]))

\* mutant: no de-duplication
NotDeduped(all) == [ret |-> Ok(all.gosts), calls |-> all.calls]

fetch_from_all_sources_NoDedupe(e) ==
    NotDeduped(CollectFrom(e, 1, [gosts |-> <<>>, calls |-> <<>>]))

fetch_from_all_sources(e) ==
    Deduped(CollectFrom(e, 1, [gosts |-> <<>>, calls |-> <<>>]))

---------------------------------------------------------------------------
(* Store                                                                   *)

Row(i, n, d) == [id |-> i, name |-> n, description |-> d]

\* session.query(Gost).filter(Gost.name == name).first(): the session
\* autoflushes, so rows added earlier in the same batch are seen
Existing(rows, name) == \E i \in 1..Len(rows) : rows[i].name = name

\* the  for gost_data in gosts  loop of save_gosts_to_db
RECURSIVE SaveLoop(_, _, _)
SaveLoop(rows, gosts, count) ==
    IF gosts = <<>> THEN [rows |-> rows, count |-> count]
    ELSE IF ~Existing(rows, gosts[1].name)
         THEN SaveLoop(Append(rows, Row(Len(rows) + 1, gosts[1].name,
                                        gosts[1].description)),
                       Tail(gosts), count + 1)
         ELSE SaveLoop(rows, Tail(gosts), count)

\* mutant: the existence check sees only the rows stored before the call
RECURSIVE SaveLoopStale(_, _, _, _)
SaveLoopStale(committed, rows, gosts, count) ==
    IF gosts = <<>> THEN [rows |-> rows, count |-> count]
    ELSE IF ~Existing(committed, gosts[1].name)
         THEN SaveLoopStale(committed,
                            Append(rows, Row(Len(rows) + 1, gosts[1].name,
                                             gosts[1].description)),
                            Tail(gosts), count + 1)
         ELSE SaveLoopStale(committed, rows, Tail(gosts), count)

save_gosts_to_db_Stale(rows, gosts) == SaveLoopStale(rows, rows, gosts, 0)

\* mutant: no existence check
RECURSIVE SaveLoopNoCheck(_, _, _)
SaveLoopNoCheck(rows, gosts, count) ==
    IF gosts = <<>> THEN [rows |-> rows, count |-> count]
    ELSE SaveLoopNoCheck(Append(rows, Row(Len(rows) + 1, gosts[1].name,
                                          gosts[1].description)),
                         Tail(gosts), count + 1)

save_gosts_to_db_NoCheck(rows, gosts) == SaveLoopNoCheck(rows, gosts, 0)

\* mutant: a name the table holds gets the description of the batch
RECURSIVE SaveLoopOverwrite(_, _, _)
SaveLoopOverwrite(rows, gosts, count) ==
    IF gosts = <<>> THEN [rows |-> rows, count |-> count]
    ELSE IF ~Existing(rows, gosts[1].name)
         THEN SaveLoopOverwrite(Append(rows, Row(Len(rows) + 1, gosts[1].name,
                                                 gosts[1].description)),
                                Tail(gosts), count + 1)
         ELSE SaveLoopOverwrite(
                  [i \in 1..Len(rows) |->
                      IF rows[i].name = gosts[1].name
                      THEN Row(rows[i].id, rows[i].name, gosts[1].description)
                      ELSE rows[i]],
                  Tail(gosts), count)

save_gosts_to_db_Overwrite(rows, gosts) == SaveLoopOverwrite(rows, gosts, 0)

\* mutant: count is the length of the batch
SaveLoopCountAll(rows, gosts) ==
    [rows |-> SaveLoop(rows, gosts, 0).rows, count |-> Len(gosts)]

save_gosts_to_db_CountAll(rows, gosts) == SaveLoopCountAll(rows, gosts)

save_gosts_to_db(rows, gosts) == SaveLoop(rows, gosts, 0)

\* the outcome of a save: the count returned, the table, the adapters
\* invoked before it and the existence queries made
Saved(sv, invoked, n) ==
    [ret |-> Ok(sv.count), rows |-> sv.rows, calls |-> invoked, dbq |-> n]

\* what a statement on the session raises while the medium is down
StoreError == "OperationalError"

\* the outcome of a function that a statement on the session left by an
\* exception: nothing was answered, nothing was committed
StoreFault(rows, invoked) ==
    [ret |-> Raise(StoreError), rows |-> rows, calls |-> invoked, dbq |-> 0]

\* gosts = fetch(...); return save_gosts_to_db(gosts), with no try: an
\* exception of the fetch leaves the caller before anything is saved, and
\* one of create_all, of an existence query or of commit leaves both
\* save_gosts_to_db and its caller
SaveFetched(m, rows, out, invoked) ==
    IF out.kind = "raise"
    THEN [ret |-> out, rows |-> rows, calls |-> invoked, dbq |-> 0]
    ELSE IF m = "down"
         THEN StoreFault(rows, invoked)
         ELSE Saved(save_gosts_to_db(rows, out.val), invoked, Len(out.val))

SaveAll(m, rows, f) == SaveFetched(m, rows, f.ret, f.calls)

update_database_from_all_sources(m, rows, e) ==
    SaveAll(m, rows, fetch_from_all_sources(e))

\* csv_to_sql.main with --source: fetch_from_source, then save_gosts_to_db
update_from_source(m, rows, s, b) ==
    SaveFetched(m, rows, fetch_from_source(s, b), <<s>>)

---------------------------------------------------------------------------
(* Search                                                                  *)

LikePattern(search_text) == <<"%">> \o search_text \o <<"%">>

\* get_search_list_db: the name matches, then the description matches not
\* already among them
NameMatches(rows, search_text) ==
    SelectSeq(rows, LAMBDA g : LikeMatch(LikePattern(search_text), g.name))

DescriptionMatches(rows, search_text) ==
    SelectSeq(rows, LAMBDA g : LikeMatch(LikePattern(search_text), g.description))

\* res, then the desc_results whose id is not among existing_ids
MergeMatches(res, desc_results) ==
    res \o SelectSeq(desc_results,
                     LAMBDA g : g.id \notin {res[i].id : i \in 1..Len(res)})

\* mutant: one query over both columns, the rows in table order
get_search_list_db_TableOrder(rows, search_text) ==
    SelectSeq(rows, LAMBDA g : \/ LikeMatch(LikePattern(search_text), g.name)
                               \/ LikeMatch(LikePattern(search_text), g.description))

get_search_list_db(rows, search_text) ==
    MergeMatches(NameMatches(rows, search_text), DescriptionMatches(rows, search_text))

\* bot.received_information: gost_list = get_search_list_db(text), with no
\* try around it
received_information(m, rows, text) ==
    IF m = "down"
    THEN StoreFault(rows, <<>>)
    ELSE [ret |-> Ok(get_search_list_db(rows, text)), rows |-> rows,
          calls |-> <<>>, dbq |-> 2]

Pairs(gs) == [i \in 1..Len(gs) |-> <<gs[i].name, gs[i].description>>]

\* mutant: the filter compares without lower()
FilterExact(f, search_text) ==
    IF f.ret.kind = "raise" THEN f
    ELSE [ret |-> Ok(SelectSeq(f.ret.val,
                    LAMBDA g : \/ Contains(g.name, search_text)
                               \/ Contains(g.description, search_text))),
          calls |-> f.calls]

get_search_list_online_CaseSensitive(e, search_text) ==
    FilterExact(fetch_from_all_sources(e), search_text)

\* the filter loop over all_gosts
FilterLower(f, search_lower) ==
    IF f.ret.kind = "raise" THEN f
    ELSE [ret |-> Ok(SelectSeq(f.ret.val,
                    LAMBDA g : \/ Contains(Lower(g.name), search_lower)
                               \/ Contains(Lower(g.description), search_lower))),
          calls |-> f.calls]

get_search_list_online(e, search_text) ==
    FilterLower(fetch_from_all_sources(e), Lower(search_text))

\* return [[g['name'], g.get('description', '')] for g in online_results];
\* rows is the table after the call, n the store queries made
OnlineAnswer(online, rows, n) ==
    [ret |-> IF online.ret.kind = "raise" THEN online.ret
             ELSE Ok(Pairs(online.ret.val)),
     calls |-> online.calls, dbq |-> n, rows |-> rows]

\* if db_results: return the table's matches; else fall back to online
StoreFirst(db_results, rows, e, search_text) ==
    IF db_results # <<>>
    THEN [ret |-> Ok(Pairs(db_results)), calls |-> <<>>, dbq |-> 2, rows |-> rows]
    ELSE OnlineAnswer(get_search_list_online(e, search_text), rows, 2)

\* mutant: the store is not asked first
get_search_list_OnlineOnly(m, rows, e, search_text) ==
    OnlineAnswer(get_search_list_online(e, search_text), rows, 0)

\* mutant: the fallback saves what it found
OnlineAnswerSaved(online, rows, n) ==
    [ret |-> IF online.ret.kind = "raise" THEN online.ret
             ELSE Ok(Pairs(online.ret.val)),
     calls |-> online.calls, dbq |-> n,
     rows |-> IF online.ret.kind = "raise" THEN rows
              ELSE save_gosts_to_db(rows, online.ret.val).rows]

StoreFirstSaving(db_results, rows, e, search_text) ==
    IF db_results # <<>>
    THEN [ret |-> Ok(Pairs(db_results)), calls |-> <<>>, dbq |-> 2, rows |-> rows]
    ELSE OnlineAnswerSaved(get_search_list_online(e, search_text), rows, 2)

get_search_list_Persisting(m, rows, e, search_text) ==
    StoreFirstSaving(get_search_list_db(rows, search_text), rows, e, search_text)

\* mutant: a store that cannot be asked counts as a store without a match
get_search_list_Swallowing(m, rows, e, search_text) ==
    IF m = "down"
    THEN OnlineAnswer(get_search_list_online(e, search_text), rows, 0)
    ELSE StoreFirst(get_search_list_db(rows, search_text), rows, e, search_text)

\* get_search_list: rows is the table after the call.  The first statement
\* is get_search_list_db(search_text); neither function has a try, so what
\* session.query raises leaves both
get_search_list(m, rows, e, search_text) ==
    IF m = "down"
    THEN StoreFault(rows, <<>>)
    ELSE StoreFirst(get_search_list_db(rows, search_text), rows, e, search_text)

---------------------------------------------------------------------------
(* The inputs the model draws from                                         *)

N1 == <<"G", "O", "S", "T", " ", "1">>
N2 == <<"g", "o", "s", "t", " ", "2">>

I1 == RawItem(<<" ">> \o N1 \o <<" ">>, <<"x", " ", "2">>, TRUE)
I2 == RawItem(N1, <<"Y">>, TRUE)
I3 == RawItem(N2, <<>>, TRUE)
I4 == RawItem(<<" ">>, <<"Y">>, TRUE)
I5 == RawItem(N1, <<>>, FALSE)

Behaviour(p, p2, f) == [page |-> p, page2 |-> p2, fault |-> f]

Quiet == Behaviour(<<>>, <<>>, NoFault)

\* what an origin may serve in Spec
Behaviours ==
    { Quiet,
      Behaviour(<<I2, I3>>, <<>>, NoFault),
      Behaviour(<<I4, I1, I2>>, <<>>, NoFault),
      Behaviour(<<I1>>, <<>>, Fault("req1", 0, "Defect")) }

\* at most MaxActive origins serve anything at a time
MaxActive == 2

Active(e) == {s \in Sources : e[s] # Quiet}

\* the invocations of save_gosts_to_db that may run at the same time
Procs == {1, 2}

\* no save_gosts_to_db is running
Idle == [pc |-> "idle", todo |-> <<>>, pending |-> <<>>, count |-> 0]

Queries == { <<>>, <<" ">>, <<"2">>, GOST, <<"y">> }

---------------------------------------------------------------------------
(* The state machine                                                       *)

Init ==
    /\ store = <<>>
    /\ env = [s \in Sources |-> Quiet]
    /\ op = "init"
    /\ arg = <<>>
    /\ ret = Ok(<<>>)
    /\ calls = <<>>
    /\ dbq = 0
    /\ repeat = FALSE
    /\ medium = "up"
    /\ sess = [p \in Procs |-> Idle]
    /\ writer = 0

\* an origin starts serving something else
SetOrigin(s, b) ==
    /\ b # env[s]
    /\ Cardinality(Active([env EXCEPT ![s] = b])) <= MaxActive
    /\ env' = [env EXCEPT ![s] = b]
    /\ op' = "env"
    /\ arg' = <<>>
    /\ ret' = Ok(<<>>)
    /\ calls' = <<>>
    /\ dbq' = 0
    /\ repeat' = FALSE
    /\ UNCHANGED <<store, medium, sess, writer>>

\* fetch_from_all_sources()
FetchAll ==
    \E f \in {fetch_from_all_sources(env)} :
    /\ op' = "fetch_all"
    /\ arg' = <<>>
    /\ ret' = f.ret
    /\ calls' = f.calls
    /\ dbq' = 0
    /\ repeat' = (op = "fetch_all")
    /\ UNCHANGED <<store, env, medium, sess, writer>>

\* update_database_from_all_sources()
UpdateAll ==
    \E u \in {update_database_from_all_sources(medium, store, env)} :
    /\ store' = u.rows
    /\ op' = "update_all"
    /\ arg' = <<>>
    /\ ret' = u.ret
    /\ calls' = u.calls
    /\ dbq' = u.dbq
    /\ repeat' = (op = "update_all")
    /\ UNCHANGED <<env, medium, sess, writer>>

\* csv_to_sql.main --source NAME
UpdateOne(s) ==
    \E u \in {update_from_source(medium, store, s, env[s])} :
    /\ store' = u.rows
    /\ op' = "update_one"
    /\ arg' = <<SourceName[s]>>
    /\ ret' = u.ret
    /\ calls' = u.calls
    /\ dbq' = u.dbq
    /\ repeat' = (op = "update_one" /\ arg = <<SourceName[s]>>)
    /\ UNCHANGED <<env, medium, sess, writer>>

\* get_search_list(search_text)
Search(q) ==
    \E r \in {get_search_list(medium, store, env, q)} :
    /\ store' = r.rows
    /\ op' = "search"
    /\ arg' = q
    /\ ret' = r.ret
    /\ calls' = r.calls
    /\ dbq' = r.dbq
    /\ repeat' = (op = "search" /\ arg = q)
    /\ UNCHANGED <<env, medium, sess, writer>>

Next ==
    \/ \E s \in Sources, b \in Behaviours : SetOrigin(s, b)
    \/ FetchAll
    \/ UpdateAll
    \/ \E s \in Sources : UpdateOne(s)
    \/ \E q \in Queries : Search(q)

Spec == Init /\ [][Next]_vars

---------------------------------------------------------------------------
(* One adapter at a time: every page and every fault within the bounds     *)

I6 == RawItem(<<"x">>, <<>>, TRUE)

RawItems == {I1, I4, I5, I6}

\* the longest page
MaxItems == 2

Pages == UNION {[1..n -> RawItems] : n \in 0..MaxItems}

\* where a fetch can fail: the requests raise a RequestException or, by a
\* defect, anything else; parsing and the item loops raise other exceptions
RequestFaults(stage) ==
    {Fault(stage, 0, e) : e \in RequestExceptions \cup {"Defect"}}

LoopFaults(stage) == {Fault(stage, k, "ParseError") : k \in 1..MaxItems}

FaultsOf(s) ==
    {NoFault} \cup RequestFaults("req1") \cup {Fault("parse1", 0, "ParseError")}
    \cup (IF s = 1 THEN {} ELSE LoopFaults("loop1"))
    \cup (IF s \in {1, 4}
          THEN RequestFaults("req2") \cup {Fault("parse2", 0, "ParseError")}
          ELSE {})
    \cup (IF s = 4 THEN LoopFaults("loop2") ELSE {})

\* only protect.gost.ru makes a second query that returns items
BehavioursOf(s) ==
    {Behaviour(p, p2, f) : p \in Pages,
                           p2 \in (IF s = 4 THEN Pages ELSE {<<>>}),
                           f \in FaultsOf(s)}

InitAdapter ==
    /\ store = <<>>
    /\ \E s \in Sources :
           \E b \in BehavioursOf(s) :
               env = [t \in Sources |-> IF t = s THEN b ELSE Quiet]
    /\ op = "init"
    /\ arg = <<>>
    /\ ret = Ok(<<>>)
    /\ calls = <<>>
    /\ dbq = 0
    /\ repeat = FALSE
    /\ medium = "up"
    /\ sess = [p \in Procs |-> Idle]
    /\ writer = 0

\* fetch_from_source(source), for the origin under test
FetchOne(s) ==
    /\ Active(env) \subseteq {s}
    /\ op' = "fetch_one"
    /\ arg' = <<SourceName[s]>>
    /\ ret' = fetch_from_source(s, env[s])
    /\ calls' = <<s>>
    /\ dbq' = 0
    /\ repeat' = (op = "fetch_one" /\ arg = <<SourceName[s]>>)
    /\ UNCHANGED <<store, env, medium, sess, writer>>

NextAdapter == \E s \in Sources : FetchOne(s)

SpecAdapter == InitAdapter /\ [][NextAdapter]_vars

---------------------------------------------------------------------------
(* The store on its own: batches as an adapter may return them, queries    *)
(* with ASCII letters of either case and with the LIKE pattern characters  *)

K1 == Gost(<<"X", "1">>, <<"x">>)
K2 == Gost(<<"x">>, <<>>)
K3 == Gost(<<"X", "1">>, <<"1", "%">>)
K4 == Gost(<<"G", "_">>, <<"Y", "1">>)

Candidates == {K1, K2, K3, K4}

\* the longest batch
MaxBatch == 2

Batches == UNION {[1..n -> Candidates] : n \in 0..MaxBatch}

StoreQueries == { <<"x">>, <<"X">>, <<"1">>, <<"%">>, <<"_">>, <<"G">> }

\* the database file becomes unreachable, or reachable again
SetMedium(m) ==
    /\ m # medium
    /\ medium' = m
    /\ op' = "medium"
    /\ arg' = <<>>
    /\ ret' = Ok(<<>>)
    /\ calls' = <<>>
    /\ dbq' = 0
    /\ repeat' = FALSE
    /\ UNCHANGED <<store, env, sess, writer>>

\* csv_to_sql.main --source NAME: count = save_gosts_to_db(gosts), gosts
\* being what the adapter returned
SaveBatch(gosts) ==
    \E u \in {SaveFetched(medium, store, Ok(gosts), <<>>)} :
    /\ store' = u.rows
    /\ op' = "save"
    /\ arg' = gosts
    /\ ret' = u.ret
    /\ calls' = u.calls
    /\ dbq' = u.dbq
    /\ repeat' = (op = "save" /\ arg = gosts)
    /\ UNCHANGED <<env, medium, sess, writer>>

\* bot.received_information(update, context)
SearchDb(q) ==
    \E r \in {received_information(medium, store, q)} :
    /\ op' = "search_db"
    /\ arg' = q
    /\ ret' = r.ret
    /\ calls' = r.calls
    /\ dbq' = r.dbq
    /\ repeat' = (op = "search_db" /\ arg = q)
    /\ UNCHANGED <<store, env, medium, sess, writer>>

\* list_available_sources()
ListSources ==
    /\ op' = "list_names"
    /\ arg' = <<>>
    /\ ret' = Ok(list_available_sources)
    /\ calls' = <<>>
    /\ dbq' = 0
    /\ repeat' = (op = "list_names")
    /\ UNCHANGED <<store, env, medium, sess, writer>>

\* get_all_data_sources()
ListAll ==
    /\ op' = "list_all"
    /\ arg' = <<>>
    /\ ret' = Ok(get_all_data_sources)
    /\ calls' = <<>>
    /\ dbq' = 0
    /\ repeat' = (op = "list_all")
    /\ UNCHANGED <<store, env, medium, sess, writer>>

NextStore ==
    \/ \E m \in {"up", "down"} : SetMedium(m)
    \/ \E gosts \in Batches : SaveBatch(gosts)
    \/ \E q \in StoreQueries : SearchDb(q)
    \/ \E q \in Queries : Search(q)
    \/ UpdateAll
    \/ ListSources
    \/ ListAll

SpecStore == Init /\ [][NextStore]_vars

---------------------------------------------------------------------------
(* save_gosts_to_db step by step, run by two processes at once, each with  *)
(* its own session on the same database file                               *)

\* the names a session has added and not yet committed
PendingNames(p) == {sess[p].pending[k].name : k \in 1..Len(sess[p].pending)}

\* the statement p is about to run flushes the rows p has added, for which
\* its transaction needs the write lock of the file
NeedsLock(p) ==
    /\ sess[p].pc \in {"query", "commit"}
    /\ sess[p].pending # <<>>

LockFree(p) == writer \in {0, p}

\* the rows of a session as the table gets them at commit
Inserted(rows, pending) ==
    [k \in 1..Len(pending) |->
        Row(Len(rows) + k, pending[k].name, pending[k].description)]

\* save_gosts_to_db(gosts) is called: create_all, count = 0
Begin(p, gosts) ==
    /\ sess[p].pc = "idle"
    /\ medium = "up"
    /\ sess' = [sess EXCEPT ![p] =
                    [pc |-> IF gosts = <<>> THEN "commit" ELSE "query",
                     todo |-> gosts, pending |-> <<>>, count |-> 0]]
    /\ op' = "begin"
    /\ arg' = gosts
    /\ ret' = Ok(<<>>)
    /\ calls' = <<>>
    /\ dbq' = 0
    /\ repeat' = FALSE
    /\ UNCHANGED <<store, env, medium, writer>>

\* existing = session.query(Gost).filter(Gost.name == name).first(): the
\* session flushes what it has added, then sees the committed rows and
\* its own
QueryExisting(p) ==
    /\ sess[p].pc = "query"
    /\ NeedsLock(p) => LockFree(p)
    /\ writer' = IF NeedsLock(p) THEN p ELSE writer
    /\ sess' = [sess EXCEPT ![p] =
                    IF \/ Existing(store, sess[p].todo[1].name)
                       \/ sess[p].todo[1].name \in PendingNames(p)
                    THEN [@ EXCEPT !.todo = Tail(@),
                                   !.pc = IF Tail(sess[p].todo) = <<>>
                                          THEN "commit" ELSE "query"]
                    ELSE [@ EXCEPT !.pc = "add"]]
    /\ op' = "query"
    /\ arg' = <<p>>
    /\ ret' = Ok(<<>>)
    /\ calls' = <<>>
    /\ dbq' = 1
    /\ repeat' = FALSE
    /\ UNCHANGED <<store, env, medium>>

\* if not existing: session.add(gost); count += 1
AddGost(p) ==
    /\ sess[p].pc = "add"
    /\ sess' = [sess EXCEPT ![p] =
                    [pc |-> IF Tail(sess[p].todo) = <<>> THEN "commit" ELSE "query",
                     todo |-> Tail(sess[p].todo),
                     pending |-> Append(sess[p].pending, sess[p].todo[1]),
                     count |-> sess[p].count + 1]]
    /\ op' = "add"
    /\ arg' = <<p>>
    /\ ret' = Ok(<<>>)
    /\ calls' = <<>>
    /\ dbq' = 0
    /\ repeat' = FALSE
    /\ UNCHANGED <<store, env, medium, writer>>

\* session.commit(); return count
CommitSave(p) ==
    /\ sess[p].pc = "commit"
    /\ NeedsLock(p) => LockFree(p)
    /\ store' = store \o Inserted(store, sess[p].pending)
    /\ writer' = IF writer = p THEN 0 ELSE writer
    /\ sess' = [sess EXCEPT ![p] = [@ EXCEPT !.pc = "done", !.pending = <<>>]]
    /\ op' = "commit"
    /\ arg' = <<p>>
    /\ ret' = Ok(sess[p].count)
    /\ calls' = <<>>
    /\ dbq' = 0
    /\ repeat' = FALSE
    /\ UNCHANGED <<env, medium>>

\* the other transaction holds the write lock for longer than the busy
\* timeout: the statement raises (database is locked), nothing is
\* committed
Busy(p) ==
    /\ NeedsLock(p)
    /\ ~LockFree(p)
    /\ sess' = [sess EXCEPT ![p] = [@ EXCEPT !.pc = "done", !.pending = <<>>]]
    /\ op' = "busy"
    /\ arg' = <<p>>
    /\ ret' = Raise(StoreError)
    /\ calls' = <<>>
    /\ dbq' = 0
    /\ repeat' = FALSE
    /\ UNCHANGED <<store, env, medium, writer>>

NextConcurrent ==
    \/ \E p \in Procs, gosts \in Batches : Begin(p, gosts)
    \/ \E p \in Procs : QueryExisting(p)
    \/ \E p \in Procs : AddGost(p)
    \/ \E p \in Procs : CommitSave(p)
    \/ \E p \in Procs : Busy(p)

SpecConcurrent == Init /\ [][NextConcurrent]_vars

---------------------------------------------------------------------------
(* Properties                                                              *)

\* what origin s returns now
Outcome(s) == fetch_from_source(s, env[s])

Reported(s) == IF Outcome(s).kind = "ok" THEN Outcome(s).val ELSE <<>>

\* the outputs of the adapters that returned, in registry order
Concatenated == Flatten([s \in Sources |-> Reported(s)])

\* c without every record whose name already appeared earlier
RECURSIVE KeepFirst(_)
KeepFirst(c) ==
    IF c = <<>> THEN <<>>
    ELSE LET n == Len(c) IN
         IF \E j \in 1..(n - 1) : c[j].name = c[n].name
         THEN KeepFirst(SubSeq(c, 1, n - 1))
         ELSE Append(KeepFirst(SubSeq(c, 1, n - 1)), c[n])

NamesOf(gs) == {gs[i].name : i \in 1..Len(gs)}

Reports(s, n) == n \in NamesOf(Reported(s))

\* the description origin s gives name n (the first, if it gives several)
DescriptionBy(s, n) ==
    LET r == Reported(s)
        i == CHOOSE k \in 1..Len(r) :
                 r[k].name = n /\ \A j \in 1..(k - 1) : r[j].name # n
    IN  r[i].description

FirstOrigin(n) == CHOOSE s \in Sources : Reports(s, n) /\ \A t \in 1..(s - 1) : ~Reports(t, n)

\* two origins report n with differing descriptions
Contested(n) ==
    \E s, t \in Sources :
        s # t /\ Reports(s, n) /\ Reports(t, n) /\ DescriptionBy(s, n) # DescriptionBy(t, n)

\* C1: in every reachable state no two stored rows have the same
\* whitespace-trimmed name
C1_UniqueTrimmedNames ==
    \A i, j \in 1..Len(store) :
        i # j => Strip(store[i].name) # Strip(store[j].name)

\* a single-source batch that held one name twice, served with differing
\* surrounding whitespace, has been saved
C1_Witness ==
    /\ op = "update_one" /\ ret.kind = "ok" /\ ret.val >= 1
    /\ \E i, j \in 1..Len(Reported(calls[1])) :
           i < j /\ Reported(calls[1])[i].name = Reported(calls[1])[j].name
    /\ \E i, j \in 1..Len(env[calls[1]].page) :
           /\ env[calls[1]].page[i].name # env[calls[1]].page[j].name
           /\ Strip(env[calls[1]].page[i].name) = Strip(env[calls[1]].page[j].name)
           /\ Strip(env[calls[1]].page[i].name) \in NamesOf(store)

\* C2: an update_database_from_all_sources that directly follows another,
\* with the origins serving the same, returns 0 and leaves the table as it is
C2_Idempotent ==
    [][(op = "update_all" /\ op' = "update_all")
          => (ret' = Ok(0) /\ store' = store)]_vars

\* the second of two updates in a row has run over origins that serve records
C2_Witness ==
    /\ op = "update_all" /\ repeat
    /\ ret = Ok(0) /\ Len(store) >= 2 /\ Concatenated # <<>>

\* C3: a name that two origins report with differing descriptions and that
\* is not stored yet is stored by update_database_from_all_sources with the
\* description of the first origin, in registry order, that reports it
C3_TieBreak ==
    [][op' = "update_all"
          => \A n \in NamesOf(Concatenated) :
                (Contested(n) /\ ~Existing(store, n))
                    => /\ \E i \in 1..Len(store') : store'[i].name = n
                       /\ \A i \in 1..Len(store') :
                              store'[i].name = n
                                  => store'[i].description
                                         = DescriptionBy(FirstOrigin(n), n)]_vars

\* the update just inserted a contested name, with the first origin's
\* description, which a later origin reports differently
C3_Witness ==
    /\ op = "update_all" /\ ret.kind = "ok"
    /\ \E i \in 1..Len(store) :
           /\ i > Len(store) - ret.val
           /\ Contested(store[i].name)
           /\ store[i].description = DescriptionBy(FirstOrigin(store[i].name), store[i].name)
           /\ \E t \in Sources :
                  /\ t > FirstOrigin(store[i].name) /\ Reports(t, store[i].name)
                  /\ DescriptionBy(t, store[i].name) # store[i].description

\* C4: fetch_from_all_sources returns the adapters' outputs, concatenated in
\* registry order, without the records whose name appeared earlier; no
\* name occurs twice in it
C4_OrderStableDedupe ==
    op = "fetch_all"
        => /\ ret = Ok(KeepFirst(Concatenated))
           /\ \A i, j \in 1..Len(ret.val) : i # j => ret.val[i].name # ret.val[j].name

\* a fetch over origins of which some return nothing and two repeat a name
C4_Witness ==
    /\ op = "fetch_all" /\ ret.kind = "ok" /\ Len(ret.val) >= 2
    /\ Len(ret.val) < Len(Concatenated)
    /\ \E s \in Sources : Outcome(s) = Ok(<<>>)
    /\ \E s, t \in Sources : s # t /\ NamesOf(Reported(s)) \cap NamesOf(Reported(t)) # {}

\* C5: when adapters raise, fetch_from_all_sources does not raise, has
\* invoked all seven adapters in registry order, and its result holds the
\* names of every record of every adapter that returned, each name once
C5_PartialFailure ==
    op = "fetch_all"
        => /\ ret.kind = "ok"
           /\ calls = [s \in Sources |-> s]
           /\ \A s \in Sources :
                  Outcome(s).kind = "ok" => NamesOf(Outcome(s).val) \subseteq NamesOf(ret.val)
           /\ Cardinality(NamesOf(ret.val)) = Len(ret.val)

\* an adapter raised and an adapter after it in the registry contributed
C5_Witness ==
    /\ op = "fetch_all" /\ ret.kind = "ok" /\ ret.val # <<>>
    /\ \E s, t \in Sources :
           s < t /\ Outcome(s).kind = "raise" /\ Reported(t) # <<>>

\* the faults C6 is about
ContainedFaults == RequestExceptions \cup {"ParseError"}

\* C6: with no fault, or a network fault, timeout, bad status or parse
\* failure at any step, fetch_gosts of each of the seven adapters returns
\* a sequence and does not raise
C6_AdapterContainment ==
    op = "fetch_one"
        => (env[calls[1]].fault.exc \in ContainedFaults \cup {"none"}
                => /\ ret.kind = "ok"
                   /\ DOMAIN ret.val = 1..Len(ret.val))

\* an adapter that goes through get_html met a request fault and returned
C6_Witness ==
    /\ op = "fetch_one" /\ ret.kind = "ok"
    /\ calls[1] \notin {1, 4}
    /\ env[calls[1]].fault.stage = "req1"
    /\ env[calls[1]].fault.exc \in RequestExceptions
    /\ env[calls[1]].page # <<>>

\* C7: a search with a non-empty query for which the table has a match
\* returns exactly the table's matches, as name/description pairs, and
\* invokes no adapter
C7_StoreFirst ==
    (op = "search" /\ arg # <<>> /\ get_search_list_db(store, arg) # <<>>)
        => /\ ret = Ok(Pairs(get_search_list_db(store, arg)))
           /\ calls = <<>>

\* after an update stored a match, the search is repeated with every
\* origin serving nothing and still returns it
C7_Witness ==
    /\ op = "search" /\ arg # <<>> /\ repeat
    /\ Active(env) = {}
    /\ ret.kind = "ok" /\ ret.val # <<>> /\ calls = <<>>

\* needle occurs in hay, letter case ignored
ContainsIgnoringCase(hay, needle) ==
    \E o \in 0..Len(hay) :
        /\ o + Len(needle) <= Len(hay)
        /\ \A k \in 1..Len(needle) : UpperChar(hay[o + k]) = UpperChar(needle[k])

\* C8: a search with a non-empty query for which the table has no match
\* returns, in order, the records of fetch_from_all_sources whose name or
\* description contains the query, letter case ignored
C8_FallbackResult ==
    (op = "search" /\ arg # <<>> /\ get_search_list_db(store, arg) = <<>>)
        => ret = Ok(Pairs(SelectSeq(fetch_from_all_sources(env).ret.val,
                      LAMBDA g : \/ ContainsIgnoringCase(g.name, arg)
                                 \/ ContainsIgnoringCase(g.description, arg))))

\* the fallback returned a record that matches only when case is ignored
C8_Witness ==
    /\ op = "search" /\ arg # <<>> /\ get_search_list_db(store, arg) = <<>>
    /\ ret.kind = "ok"
    /\ \E i \in 1..Len(ret.val) :
           ~Contains(ret.val[i][1], arg) /\ ~Contains(ret.val[i][2], arg)

\* C9: a search leaves the table as it is; the table changes only in
\* update_database_from_all_sources and in the single-source update
C9_SearchNeverPersists ==
    [][/\ op' = "search" => store' = store
       /\ store' # store => op' \in {"update_all", "update_one"}]_vars

\* the fallback found records that the table does not hold
C9_Witness ==
    /\ op = "search" /\ ret.kind = "ok" /\ calls # <<>>
    /\ \E i \in 1..Len(ret.val) : ret.val[i][1] \notin NamesOf(store)

\* C10: a search with an empty or whitespace-only query returns nothing,
\* asks the table nothing and invokes no adapter
C10_EmptyQueryGuard ==
    (op = "search" /\ Strip(arg) = <<>>)
        => (ret = Ok(<<>>) /\ dbq = 0 /\ calls = <<>>)

\* the table matches g on its name / on its description for query q
NameHit(g, q) == LikeMatch(LikePattern(q), g.name)

DescriptionHit(g, q) == LikeMatch(LikePattern(q), g.description)

LiteralHit(g, needle) == Contains(g.name, needle) \/ Contains(g.description, needle)

\* C12: get_search_list_db returns exactly the stored rows whose name or
\* description contains the query as a literal, case-sensitive substring:
\* every such row is returned and no other row is
C12_LiteralMatchSet ==
    (op = "search_db" /\ ret.kind = "ok")
        => \A k \in 1..Len(store) :
               (\E i \in 1..Len(ret.val) : ret.val[i] = store[k])
                   <=> LiteralHit(store[k], arg)

\* C13: while the database file cannot be reached, a save, an update, a
\* store-first search and the bot's store search each end with the store's
\* exception, not with a count or a list, and the searches invoke no adapter
C13_StoreFaultSurfaced ==
    (medium = "down" /\ op \in {"save", "update_all", "search", "search_db"})
        => /\ ret = Raise(StoreError)
           /\ op \in {"search", "search_db"} => calls = <<>>

\* a store-first search has met the failing store while the table held
\* rows, none of which the query would have matched
C13_Witness ==
    /\ op = "search" /\ medium = "down"
    /\ ret.kind = "raise"
    /\ store # <<>> /\ get_search_list_db(store, arg) = <<>>

\* C18: save_gosts_to_db returns the number of rows it added, which is the
\* number of distinct names of the batch that the table did not hold; a
\* batch with names the table holds is saved without an exception
C18_InsertCount ==
    [][(op' = "save" /\ medium = "up")
          => /\ ret'.kind = "ok"
             /\ Len(store') = Len(store) + ret'.val
             /\ ret'.val = Cardinality(NamesOf(arg') \ NamesOf(store))]_vars

\* a batch of two names, one of them stored before, has been saved
C18_Witness ==
    /\ op = "save" /\ ret = Ok(1)
    /\ Len(arg) = 2 /\ arg[1].name # arg[2].name
    /\ Len(store) >= 2

\* C15: no stored row has a name that is empty after trimming
C15_NoEmptyNames ==
    \A i \in 1..Len(store) : Strip(store[i].name) # <<>>

\* the registry as registered
RegisteredNames ==
    <<"gost.ru", "docs.cntd.ru", "meganorm.ru", "protect.gost.ru",
      "files.stroyinf.ru", "internet-law.ru", "libgost.ru">>

\* C16: whatever was fetched, saved or searched before, get_all_data_sources
\* yields the seven adapters in registration order and
\* list_available_sources their names in the same order, 'gost.ru' and
\* 'docs.cntd.ru' among them; the seven names differ pairwise
C16_RegistryListing ==
    /\ op = "list_all" => ret = Ok(RegisteredNames)
    /\ op = "list_names"
           => /\ ret = Ok(RegisteredNames)
              /\ \E i \in 1..Len(ret.val) : ret.val[i] = "gost.ru"
              /\ \E i \in 1..Len(ret.val) : ret.val[i] = "docs.cntd.ru"
    /\ Len(DATA_SOURCES) = 7
    /\ \A i, j \in 1..Len(DATA_SOURCES) : i # j => DATA_SOURCES[i] # DATA_SOURCES[j]

\* the names have been listed twice in a row after rows were saved
C16_Witness ==
    /\ op = "list_names" /\ repeat
    /\ ret.kind = "ok" /\ Len(ret.val) = 7
    /\ store # <<>>

\* C17: no step changes or removes a stored row: the table before a step is
\* a prefix of the table after it, so a name reported again with another
\* description keeps the description stored first
C17_FirstSeenWins ==
    [][\A i \in 1..Len(store) : i <= Len(store') /\ store'[i] = store[i]]_vars

\* an update found every reported name stored and one of them stored with
\* a description other than the one now reported for it
C17_Witness ==
    /\ op = "update_all" /\ ret = Ok(0)
    /\ \E i \in 1..Len(store) :
           /\ store[i].name \in NamesOf(Concatenated)
           /\ DescriptionBy(FirstOrigin(store[i].name), store[i].name)
                  # store[i].description

C14_ConcurrentUnique ==
    \A i, j \in 1..Len(store) : i # j => store[i].name # store[j].name

=============================================================================
